---- MODULE Spec2Model ----
(***************************************************************************)
(* TJ Shell (tj_shell.c): the job-control engine as a state machine.       *)
(*                                                                         *)
(* The shell process is one sequential program (variable pc is its         *)
(* position); every forked child is a process of its own whose in-child    *)
(* set-up steps and later life interleave freely with the shell.  In the   *)
(* SIGDET=1 build sigchld_handler interrupts the shell at any position; in *)
(* the POLLING build the same sweep runs in the main loop only.            *)
(***************************************************************************)
EXTENDS Integers, Sequences, FiniteSets, TLC

\* ------------------------------------------------------------------------
\* Bounds of the model
\* ------------------------------------------------------------------------
MaxCmds == 3     \* stages per command line (MAX_CMDS is 63 in the program)
MaxLoad == 4     \* command lines read plus children forked in one session
MaxPids == 7     \* process ids the system hands out to children
MaxSetUp == 2    \* children between fork and exec at one time, in EnvSpec

\* ------------------------------------------------------------------------
\* Program and platform constants
\* ------------------------------------------------------------------------
READ_END     == 0
WRITE_END    == 1
EXIT_SUCCESS == 0
EXIT_FAILURE == 1
SIGKILL      == 9
SIGCONT      == 18
SIGSTOP      == 19
ShellPid     == 10       \* shell_pid = getpid()
InitPid      == 1        \* the parent of the shell, and of orphans
NoStatus     == 0 - 1    \* no pending wait status / no such process

ChildPids == (ShellPid + 1) .. (ShellPid + MaxPids)
\* The pids a user types after "fg".
FgPids == (ShellPid + 1) .. (ShellPid + MaxLoad - 1)

\* ------------------------------------------------------------------------
\* Wait statuses (<sys/wait.h>), as the integers the kernel hands out
\* ------------------------------------------------------------------------
W_EXITCODE(ret)  == ret * 256
W_TERMSIG(sig)   == sig
W_STOPCODE(sig)  == sig * 256 + 127

WEXITSTATUS(s) == (s \div 256) % 256
WIFEXITED(s)   == s % 128 = 0
WIFSTOPPED(s)  == s % 256 = 127
WIFSIGNALED(s) == ~WIFEXITED(s) /\ ~WIFSTOPPED(s)

\* The values an uninitialized "int status" may hold: whatever an earlier
\* call left on the stack.
StaleStatus == {W_EXITCODE(EXIT_SUCCESS), W_EXITCODE(EXIT_FAILURE),
                W_TERMSIG(SIGKILL), W_STOPCODE(SIGSTOP)}

\* ------------------------------------------------------------------------
\* Command lines.  A line is a sequence of stages (split at "|"), a stage a
\* sequence of argument strings (split at " ").
\* ------------------------------------------------------------------------
PidArg(p) == ToString(p)                       \* a pid as typed by the user
sscanf_d(s) == IF \E p \in (ChildPids \cup {ShellPid}) : PidArg(p) = s
               THEN CHOOSE p \in (ChildPids \cup {ShellPid}) : PidArg(p) = s
               ELSE NoStatus

Stages == { <<"run">>, << >> }
PipeLines == UNION { [1..k -> Stages] : k \in 2..MaxCmds }
SingleLines ==
    { << <<"run">> >>, << <<"run", "&">> >>, << <<"&">> >>, << << >> >>,
      << <<"cd", "&">> >>, << <<"exit">> >> }
    \cup { << <<"fg", PidArg(p)>> >> : p \in FgPids \cup {ShellPid} }
Lines == SingleLines \cup PipeLines

\* ------------------------------------------------------------------------
\* State
\* ------------------------------------------------------------------------
VARIABLES
    mode,        \* "signal" (SIGDET=1) or "polling": how SIGCHLD is set up
    pc,          \* position of the shell process
    line,        \* exec_cmdline: the tokenized line (cmds)
    i,           \* exec_cmdline: loop index, 0-based
    failed_cmd,  \* exec_cmdline: result
    args,        \* fork_exec_wait: argument vector of the stage
    background,  \* fork_exec_wait: 1 for a background stage
    pipe_fds,    \* fork_exec_wait: static pipe array (sequence of pipe ids)
    n,           \* fork_exec_wait: static pipe index
    c_pid,       \* the child just forked / waited for
    status,      \* wait status held by c_wait and fork_exec_wait
    cont,        \* c_wait: 1 when called by put_fg, 0 by fork_exec_wait
    procs,       \* process table entries of the session's children
    tty,         \* foreground process group of the terminal
    pipes,       \* every pipe created so far, with the shell's descriptors
    nlines,      \* command lines read so far
    dirpos,      \* term_all: position of the /proc directory stream
    dent,        \* term_all: the entry readdir returned last
    exit_status, \* status the shell terminated with
    err,         \* last message written to stderr for the current line
    resume,      \* where the shell goes on when continued; "" unless stopped
    frame        \* check_env: its args, pager and the exec_cmdline calls made

vars == <<mode, pc, line, i, failed_cmd, args, background, pipe_fds, n,
          c_pid, status, cont, procs, tty, pipes, nlines, dirpos, dent,
          exit_status, err, resume, frame>>

\* What no step of the shell's main flow and no step of a child's set-up
\* changes.
ext == <<mode, resume, frame>>

\* exec_cmdline was called by prompt: no check_env is active.
NoFrame == [args |-> << >>, pager |-> "", calls |-> 0]

\* An unused slot of the process table.
NoProc ==
    [st |-> "none",      \* none, setpgid, tcsetpgrp, signal, redirect,
                         \* execvp, run, stopped, zombie, gone
     ppid |-> 0, pgid |-> 0,
     wstatus |-> NoStatus,  \* state change not yet collected by a waitpid
     line |-> 0,         \* the command line it belongs to
     cmd |-> 0, no_cmds |-> 0, background |-> 0, args |-> << >>,
     pipe_fds |-> << >>, n |-> 0,     \* the child's copy of the statics
     fds |-> {},         \* pipe descriptors it holds: <<pipe, end>>
     stdin |-> << >>, stdout |-> << >>,  \* << >> is the terminal
     sigdfl |-> FALSE,   \* signal dispositions reset to default
     image |-> "shell",  \* shell (forked copy), program
     termstat |-> NoStatus, \* status it terminated with
     changes |-> 0,      \* state changes (stops, termination) so far
     reports |-> 0,      \* print_status lines printed for it
     runtime |-> 0,      \* "Run time was" lines printed for it
     spawned |-> "",     \* "foreground" / "background" as announced
     waited |-> FALSE,   \* fork_exec_wait called c_wait for it
     killed |-> FALSE,   \* term_all sent it SIGKILL
     handler |-> ""]     \* the handler of the shell it ran as a forked copy

Alive(p)  == procs[p].st \notin {"none", "zombie", "gone"}
Exists(p) == procs[p].st \notin {"none", "gone"}   \* has a /proc entry
Forked    == {p \in ChildPids : procs[p].st # "none"}
no_cmds   == Len(line)

\* getpgid(pid): -1 when there is no such process.
getpgid(pid) ==
    IF pid = ShellPid THEN ShellPid
    ELSE IF pid \in ChildPids /\ Exists(pid) THEN procs[pid].pgid
    ELSE NoStatus

\* tcsetpgrp(STDIN_FILENO, pgrp): the new foreground group; it fails
\* (the group stays) when pgrp names no process group of the session.
tcsetpgrp(pgrp) ==
    IF pgrp = ShellPid \/ \E p \in ChildPids : Exists(p) /\ procs[p].pgid = pgrp
    THEN pgrp ELSE tty

Init ==
    /\ mode \in {"signal", "polling"}
    /\ pc = "prompt"
    /\ line = << >> /\ i = 0 /\ failed_cmd = 0
    /\ args = << >> /\ background = 0
    /\ pipe_fds = << >> /\ n = 0
    /\ c_pid = 0 /\ status = 0 /\ cont = 0
    /\ procs = [p \in ChildPids |-> NoProc]
    /\ tty = ShellPid
    /\ pipes = << >>
    /\ nlines = 0
    /\ dirpos = 0 /\ dent = 0
    /\ exit_status = NoStatus
    /\ err = ""
    /\ resume = ""
    /\ frame = NoFrame

\* ------------------------------------------------------------------------
\* Helpers shared by the shell and its children
\* ------------------------------------------------------------------------
PIPING(ncmds)          == ncmds > 1
FIRST_CMD(cmd)         == cmd = 1
MIDDLE_CMD(cmd, ncmds) == cmd > 1 /\ cmd < ncmds
LAST_CMD(cmd, ncmds)   == cmd = ncmds

\* The process terminates with wait status ws: it becomes a zombie, its
\* descriptors are closed, SIGCHLD is raised for the parent.
Terminate(pr, p, ws) ==
    [pr EXCEPT ![p].st = "zombie", ![p].wstatus = ws, ![p].termstat = ws,
               ![p].changes = @ + 1, ![p].fds = {}]

\* kill(pid, sig) for the two signals the shell sends.
kill(pr, pid, sig) ==
    IF pid \notin ChildPids \/ pr[pid].st \in {"none", "gone", "zombie"}
    THEN pr
    ELSE IF sig = SIGKILL THEN Terminate(pr, pid, W_TERMSIG(SIGKILL))
    ELSE IF pr[pid].st = "stopped"                       \* SIGCONT
         THEN [pr EXCEPT ![pid].st = "run", ![pid].wstatus = NoStatus]
         ELSE pr

\* print_status: one line per exited / signaled / stopped status.
print_status(pr, p, s) ==
    IF WIFEXITED(s) \/ WIFSIGNALED(s) \/ WIFSTOPPED(s)
    THEN [pr EXCEPT ![p].reports = @ + 1]
    ELSE pr

\* A successful waitpid on p: the pending status is consumed, a zombie is
\* removed from the process table.
Collect(pr, p) ==
    [pr EXCEPT ![p].wstatus = NoStatus,
               ![p].st = IF @ = "zombie" THEN "gone" ELSE @]

Waitable(pr, p) == pr[p].st \notin {"none", "gone"} /\ pr[p].wstatus # NoStatus

\* sigchld_handler: waitpid(WAIT_ANY, WUNTRACED | WNOHANG) until no child
\* has a state change left, print_status for each.
RECURSIVE sigchld_handler(_)
sigchld_handler(pr) ==
    IF \E p \in ChildPids : Waitable(pr, p)
    THEN LET p == CHOOSE q \in ChildPids : Waitable(pr, q)
         IN  sigchld_handler(Collect(print_status(pr, p, pr[p].wstatus), p))
    ELSE pr

\* child_process: /proc/<pid>/stat can be opened and names the shell as parent.
child_process_m(pid) == pid = ShellPid \/ (pid \in ChildPids /\ Exists(pid))
child_process(pid) ==
    IF pid \in ChildPids /\ Exists(pid)
    THEN procs[pid].ppid = ShellPid
    ELSE FALSE        \* no such file, or the shell's own entry (ppid differs)

\* When the shell is gone its children are adopted by init.
Orphan(pr) ==
    [p \in ChildPids |-> IF pr[p].st \in {"none", "gone"} THEN pr[p]
                         ELSE [pr[p] EXCEPT !.ppid = InitPid]]

ShellDead == pc \in {"exited", "crashed"}
ShellStopped == pc = "stopped"     \* by SIGSTOP, until a SIGCONT
InTermAll == pc \in {"readdir", "fopen"}

\* exit(code) of the shell process.
exit(code, pr) ==
    /\ pc' = "exited"
    /\ exit_status' = code
    /\ procs' = Orphan(pr)

\* ------------------------------------------------------------------------
\* exec_cmd: what a tokenized stage leads to.  op is the function entered
\* (or "return"), ret the value returned without entering one.
\* ------------------------------------------------------------------------
Decision_m(op, ret, a, bg) == [op |-> op, ret |-> ret, args |-> a, background |-> 0]
Decision(op, ret, a, bg) == [op |-> op, ret |-> ret, args |-> a, background |-> bg]

exec_cmd(a, no_args, cmd, ncmds) ==
    IF ncmds = 1 /\ a[1] = "cd"
    THEN IF no_args \in {1, 2} THEN Decision("change_dir", 0, a, 0)
                               ELSE Decision("return", 0 - 1, a, 0)
    ELSE IF ncmds = 1 /\ a[1] = "checkEnv"
    THEN IF no_args <= 2 THEN Decision("check_env", 0, a, 0)
                         ELSE Decision("return", 0 - 1, a, 0)
    ELSE IF ncmds = 1 /\ a[1] = "exit"
    THEN IF no_args = 1 THEN Decision("term_all", 0, a, 0)
                        ELSE Decision("return", 0 - 1, a, 0)
    ELSE IF ncmds = 1 /\ a[1] = "fg"
    THEN IF no_args = 2 THEN Decision("put_fg", 0, a, 0)
                        ELSE Decision("return", 0 - 1, a, 0)
    ELSE IF ncmds = 1 /\ a[no_args] = "&"
    THEN IF no_args >= 2
         THEN Decision("fork_exec_wait", 0, SubSeq(a, 1, no_args - 1), 1)
         ELSE Decision("return", 0 - 1, a, 0)
    ELSE Decision("fork_exec_wait", 0, a, 0)

\* Children a line will fork (used only to keep the session within MaxLoad).
Spawns(l) ==
    IF Len(l) = 1
    THEN IF Len(l[1]) > 0 /\ exec_cmd(l[1], Len(l[1]), 1, 1).op = "fork_exec_wait"
         THEN 1 ELSE 0
    ELSE IF \E k \in 1..Len(l) : Len(l[k]) = 0
         THEN (CHOOSE k \in 1..Len(l) :
                  Len(l[k]) = 0 /\ \A j \in 1..(k-1) : Len(l[j]) > 0) - 1
         ELSE Len(l)

\* ------------------------------------------------------------------------
\* The shell: main loop and exec_cmdline
\* ------------------------------------------------------------------------
shell_locals == <<line, i, failed_cmd, args, background, c_pid, status, cont>>
statics      == <<pipe_fds, n>>
term_vars    == <<dirpos, dent, exit_status>>

\* The automatic variables of prompt, exec_cmdline and the functions below
\* them are gone when the shell is back in main, or in term_all for good.
Returned ==
    /\ line' = << >> /\ i' = 0 /\ failed_cmd' = 0
    /\ args' = << >> /\ background' = 0
    /\ c_pid' = 0 /\ status' = 0 /\ cont' = 0
    /\ err' = ""

\* prompt: a command line is read and handed to exec_cmdline.
prompt(l) ==
    /\ pc = "prompt"
    /\ nlines + Cardinality(Forked) + 1 + Spawns(l) <= MaxLoad
    /\ line' = l /\ i' = 0 /\ failed_cmd' = 0 /\ err' = ""
    /\ nlines' = nlines + 1
    /\ pc' = "exec_cmdline"
    /\ UNCHANGED <<ext, args, background, c_pid, status, cont, statics,
                   procs, tty, pipes, term_vars>>

\* Where exec_cmdline returns to: prompt and then main, or check_env.
Caller == IF frame.calls = 0 THEN "main" ELSE "check_env"

\* exec_cmdline after exec_cmd returned rv for stage i+1: break and report
\* on -1, otherwise the next stage, or return when there is none.
StageDone(rv) ==
    IF rv = 0 - 1
    THEN /\ failed_cmd' = i + 1 /\ err' = "Command failed"
         /\ i' = i /\ pc' = Caller
    ELSE /\ failed_cmd' = failed_cmd /\ err' = err
         /\ i' = i + 1
         /\ pc' = IF i + 1 < no_cmds THEN "exec_cmdline" ELSE Caller

\* exec_cmdline: a stage without arguments ends the loop.
exec_cmdline_empty ==
    /\ pc = "exec_cmdline"
    /\ Len(line[i + 1]) = 0
    /\ failed_cmd' = i + 1 /\ err' = "Empty command"
    /\ pc' = Caller
    /\ UNCHANGED <<ext, line, i, args, background, c_pid, status, cont,
                   statics, procs, tty, pipes, nlines, term_vars>>

\* exec_cmdline -> exec_cmd: built-ins that return at once (cd, and any
\* built-in or background marker with a wrong argument count).
exec_cmd_return ==
    /\ pc = "exec_cmdline"
    /\ Len(line[i + 1]) > 0
    /\ LET d == exec_cmd(line[i + 1], Len(line[i + 1]), i + 1, no_cmds)
       IN  /\ d.op \in {"return", "change_dir"}
           /\ StageDone(d.ret)
    /\ UNCHANGED <<ext, line, args, background, c_pid, status, cont,
                   statics, procs, tty, pipes, nlines, term_vars>>

\* exec_cmdline -> exec_cmd -> put_fg / fork_exec_wait.
exec_cmd_call ==
    /\ pc = "exec_cmdline"
    /\ Len(line[i + 1]) > 0
    /\ LET d == exec_cmd(line[i + 1], Len(line[i + 1]), i + 1, no_cmds)
       IN  /\ d.op \in {"put_fg", "fork_exec_wait"}
           /\ args' = d.args
           /\ background' = d.background
           /\ pc' = d.op
    /\ status' = 0
    /\ UNCHANGED <<ext, line, i, failed_cmd, c_pid, cont, statics, procs,
                   tty, pipes, nlines, term_vars, err>>

\* exec_cmdline -> exec_cmd -> term_all: the exit built-in.
exec_cmd_exit ==
    /\ pc = "exec_cmdline"
    /\ Len(line[i + 1]) > 0
    /\ exec_cmd(line[i + 1], Len(line[i + 1]), i + 1, no_cmds).op = "term_all"
    /\ pc' = "readdir"
    /\ dirpos' = 0
    /\ Returned
    /\ UNCHANGED <<ext, statics, procs, tty, pipes, nlines, dent,
                   exit_status>>

\* main: ten_ms_sleep(10), then the sweep of the POLLING build.
main ==
    /\ pc = "main"
    /\ procs' = IF mode = "polling" THEN sigchld_handler(procs) ELSE procs
    /\ pc' = "prompt"
    /\ Returned
    /\ UNCHANGED <<ext, statics, tty, pipes, nlines, term_vars>>

\* ------------------------------------------------------------------------
\* fork_exec_wait
\* ------------------------------------------------------------------------
cmd == i + 1

\* A pipeline of ncmds stages gets ncmds - 1 pipes.
PipeCount_m(ncmds) == ncmds
PipeCount(ncmds) == ncmds - 1

NewPipe(k) == [line |-> nlines, idx |-> k,
               open |-> {READ_END, WRITE_END},       \* held by the shell
               closes |-> [e \in {READ_END, WRITE_END} |-> 0]]

fork_exec_wait_pipe_m ==
    /\ pc = "fork_exec_wait"
    /\ IF PIPING(no_cmds) /\ FIRST_CMD(cmd) /\ pipe_fds = << >>
       THEN /\ pipes' = pipes \o [k \in 1..PipeCount(no_cmds) |-> NewPipe(k)]
            /\ pipe_fds' = [k \in 1..PipeCount(no_cmds) |-> Len(pipes) + k]
            /\ n' = 0
       ELSE /\ pipes' = pipes
            /\ pipe_fds' = pipe_fds
            /\ n' = IF PIPING(no_cmds) /\ MIDDLE_CMD(cmd, no_cmds)
                    THEN n + 1 ELSE n
    /\ pc' = "fork"
    /\ UNCHANGED <<ext, shell_locals, procs, tty, nlines, term_vars, err>>

\* The pipes are allocated before the first stage of a pipeline, the pipe
\* index advances for a middle stage.
fork_exec_wait_pipe ==
    /\ pc = "fork_exec_wait"
    /\ IF PIPING(no_cmds) /\ FIRST_CMD(cmd)
       THEN /\ pipes' = pipes \o [k \in 1..PipeCount(no_cmds) |-> NewPipe(k)]
            /\ pipe_fds' = [k \in 1..PipeCount(no_cmds) |-> Len(pipes) + k]
            /\ n' = 0
       ELSE /\ pipes' = pipes
            /\ pipe_fds' = pipe_fds
            /\ n' = IF PIPING(no_cmds) /\ MIDDLE_CMD(cmd, no_cmds)
                    THEN n + 1 ELSE n
    /\ pc' = "fork"
    /\ UNCHANGED <<ext, shell_locals, procs, tty, nlines, term_vars, err>>

\* pipe() fails: fatal.
fork_exec_wait_pipe_fails ==
    /\ pc = "fork_exec_wait"
    /\ PIPING(no_cmds) /\ FIRST_CMD(cmd)
    /\ exit(EXIT_FAILURE, procs)
    /\ UNCHANGED <<ext, shell_locals, statics, tty, pipes, nlines, dirpos,
                   dent, err>>

ShellFds == { <<k, e>> \in (1..Len(pipes)) \X {READ_END, WRITE_END} :
                 e \in pipes[k].open }

\* fork(): the child is a copy of the shell, descriptors included.
fork ==
    /\ pc = "fork"
    /\ LET pid == ShellPid + Cardinality(Forked) + 1
       IN  /\ pid \in ChildPids
           /\ procs' = [procs EXCEPT ![pid] =
                  [NoProc EXCEPT !.st = "setpgid", !.ppid = ShellPid,
                                 !.pgid = ShellPid, !.line = nlines,
                                 !.cmd = cmd, !.no_cmds = no_cmds,
                                 !.background = background, !.args = args,
                                 !.pipe_fds = pipe_fds, !.n = n,
                                 !.fds = ShellFds]]
           /\ c_pid' = pid
    /\ pc' = "parent"
    /\ UNCHANGED <<ext, line, i, failed_cmd, args, background, status, cont,
                   statics, tty, pipes, nlines, term_vars, err>>

\* fork() fails: fatal.
fork_fails ==
    /\ pc = "fork"
    /\ exit(EXIT_FAILURE, procs)
    /\ UNCHANGED <<ext, shell_locals, statics, tty, pipes, nlines, dirpos,
                   dent, err>>

\* close(fd) by the shell on end e of pipe k.
close(ps, k, e) ==
    [ps EXCEPT ![k].open = @ \ {e}, ![k].closes[e] = @ + 1]

parent_m ==
    /\ pc = "parent"
    /\ pipes' = IF PIPING(no_cmds) THEN close(pipes, pipe_fds[n + 1], WRITE_END)
                ELSE pipes
    /\ IF background = 0
       THEN /\ procs' = [procs EXCEPT ![c_pid].spawned = "foreground",
                                      ![c_pid].waited = TRUE]
            /\ cont' = 0
            /\ pc' = "waitpid"
       ELSE /\ procs' = [procs EXCEPT ![c_pid].spawned = "background"]
            /\ cont' = cont
            /\ pc' = "fork_exec_wait_ret"
    /\ UNCHANGED <<ext, line, i, failed_cmd, args, background, c_pid,
                   status, statics, tty, nlines, term_vars, err>>

\* The parent after fork: widow the pipe, announce the child, and decide
\* whether to wait for it.
parent ==
    /\ pc = "parent"
    /\ pipes' = IF PIPING(no_cmds) THEN close(pipes, pipe_fds[n + 1], WRITE_END)
                ELSE pipes
    /\ IF background = 0 /\ LAST_CMD(cmd, no_cmds)
       THEN /\ procs' = [procs EXCEPT ![c_pid].spawned = "foreground",
                                      ![c_pid].waited = TRUE]
            /\ cont' = 0
            /\ pc' = "waitpid"
       ELSE /\ procs' = [procs EXCEPT ![c_pid].spawned = "background"]
            /\ cont' = cont
            /\ pc' = "fork_exec_wait_ret"
    /\ UNCHANGED <<ext, line, i, failed_cmd, args, background, c_pid,
                   status, statics, tty, nlines, term_vars, err>>

\* The end of fork_exec_wait: the return value from the status, then the
\* caller's loop (free(pipe_fds) releases memory only).
fork_exec_wait_ret ==
    /\ pc = "fork_exec_wait_ret"
    /\ StageDone(IF background = 0 /\ WEXITSTATUS(status) = EXIT_FAILURE
                 THEN 0 - 1 ELSE 0)
    /\ status' = 0
    /\ UNCHANGED <<ext, line, args, background, c_pid, cont, statics,
                   procs, tty, pipes, nlines, term_vars>>

\* ------------------------------------------------------------------------
\* put_fg and c_wait
\* ------------------------------------------------------------------------
\* put_fg: the pid is parsed and checked; a child is handed to c_wait with
\* cont = 1, anything else is refused.
put_fg ==
    /\ pc = "put_fg"
    /\ LET pid == sscanf_d(args[2])
       IN  /\ c_pid' = pid
           /\ IF child_process(pid)
              THEN /\ cont' = 1
                   /\ pc' = "c_wait"
                   /\ UNCHANGED <<i, failed_cmd, err>>
              ELSE /\ cont' = cont
                   /\ failed_cmd' = failed_cmd
                   /\ i' = i + 1
                   /\ err' = "No such child"
                   /\ pc' = "main"
    /\ UNCHANGED <<ext, line, args, background, status, statics, procs,
                   tty, pipes, nlines, term_vars>>

c_wait_tcsetpgrp_m ==
    /\ pc = "c_wait"
    /\ procs' = kill(procs, c_pid, SIGCONT)
    /\ tty' = tcsetpgrp(getpgid(c_pid))
    /\ pc' = "c_wait_kill"
    /\ UNCHANGED <<ext, shell_locals, statics, pipes, nlines, term_vars, err>>

\* c_wait with cont set: the terminal is given to the child's group ...
c_wait_tcsetpgrp ==
    /\ pc = "c_wait"
    /\ tty' = tcsetpgrp(getpgid(c_pid))
    /\ pc' = "c_wait_kill"
    /\ UNCHANGED <<ext, shell_locals, statics, procs, pipes, nlines,
                   term_vars, err>>

\* ... and the child is continued.
c_wait_kill ==
    /\ pc = "c_wait_kill"
    /\ procs' = kill(procs, c_pid, SIGCONT)
    /\ pc' = "waitpid"
    /\ UNCHANGED <<ext, shell_locals, statics, tty, pipes, nlines,
                   term_vars, err>>

\* waitpid(c_pid, &status, WUNTRACED) returns the child's state change:
\* print_status, and the run time when a stopwatch was started.
c_wait_waitpid ==
    /\ pc = "waitpid"
    /\ Waitable(procs, c_pid)
    /\ status' = procs[c_pid].wstatus
    /\ procs' = LET pr == Collect(print_status(procs, c_pid,
                                               procs[c_pid].wstatus), c_pid)
                IN  IF cont = 0 THEN [pr EXCEPT ![c_pid].runtime = @ + 1]
                    ELSE pr
    /\ pc' = "reclaim"
    /\ UNCHANGED <<ext, line, i, failed_cmd, args, background, c_pid, cont,
                   statics, tty, pipes, nlines, term_vars, err>>

c_wait_waitpid_fails_m ==
    /\ pc = "waitpid"
    /\ procs[c_pid].st \in {"none", "gone"}
    /\ status' \in StaleStatus
    /\ procs' = print_status(procs, c_pid, status')
    /\ pc' = "reclaim"
    /\ UNCHANGED <<ext, line, i, failed_cmd, args, background, c_pid, cont,
                   statics, tty, pipes, nlines, term_vars, err>>

\* waitpid fails (no such child any more): nothing is printed and status
\* keeps whatever the stack held.
c_wait_waitpid_fails ==
    /\ pc = "waitpid"
    /\ procs[c_pid].st \in {"none", "gone"}
    /\ status' \in StaleStatus
    /\ pc' = "reclaim"
    /\ UNCHANGED <<ext, line, i, failed_cmd, args, background, c_pid, cont,
                   statics, procs, tty, pipes, nlines, term_vars, err>>

c_wait_reclaim_m ==
    /\ pc = "reclaim"
    /\ cont = 0
    /\ tty' = IF procs[c_pid].st = "stopped" THEN tty
              ELSE tcsetpgrp(getpgid(ShellPid))
    /\ pc' = "fork_exec_wait_ret"
    /\ UNCHANGED <<ext, shell_locals, statics, procs, pipes, nlines,
                   term_vars, err>>

\* c_wait: reclaim the terminal and return status, to fork_exec_wait ...
c_wait_reclaim ==
    /\ pc = "reclaim"
    /\ cont = 0
    /\ tty' = tcsetpgrp(getpgid(ShellPid))
    /\ pc' = "fork_exec_wait_ret"
    /\ UNCHANGED <<ext, shell_locals, statics, procs, pipes, nlines,
                   term_vars, err>>

\* ... or to put_fg, which returns to exec_cmd and that with 0.
c_wait_reclaim_fg ==
    /\ pc = "reclaim"
    /\ cont = 1
    /\ tty' = tcsetpgrp(getpgid(ShellPid))
    /\ StageDone(0)
    /\ status' = 0 /\ cont' = 0
    /\ UNCHANGED <<ext, line, args, background, c_pid, statics, procs,
                   pipes, nlines, term_vars>>

\* ------------------------------------------------------------------------
\* Signal handlers of the shell
\* ------------------------------------------------------------------------
\* SIGCHLD in the SIGDET=1 build: the handler interrupts the shell wherever
\* it is.
sigchld ==
    /\ mode = "signal"
    /\ ~ShellDead /\ ~ShellStopped
    /\ \E p \in ChildPids : Waitable(procs, p)
    /\ procs' = sigchld_handler(procs)
    /\ UNCHANGED <<ext, pc, shell_locals, statics, tty, pipes, nlines,
                   term_vars, err>>

\* SIGINT: the handler calls term_all, which never returns.
sigint_handler ==
    /\ ~ShellDead /\ ~InTermAll /\ ~ShellStopped
    /\ pc' = "readdir"
    /\ dirpos' = 0
    /\ Returned
    /\ UNCHANGED <<ext, statics, procs, tty, pipes, nlines, dent,
                   exit_status>>

\* ------------------------------------------------------------------------
\* term_all
\* ------------------------------------------------------------------------
\* The numerical entries of /proc: the shell itself and every child that
\* has not been collected.
ProcEntries == {ShellPid} \cup {p \in ChildPids : Exists(p)}

\* readdir: the next entry, in pid order.
term_all_readdir ==
    /\ pc = "readdir"
    /\ \E e \in ProcEntries :
          /\ e > dirpos
          /\ \A f \in ProcEntries : f > dirpos => e <= f
          /\ dent' = e /\ dirpos' = e
    /\ pc' = "fopen"
    /\ UNCHANGED <<ext, shell_locals, statics, procs, tty, pipes, nlines,
                   exit_status, err>>

\* fopen/fscanf of /proc/<pid>/stat: SIGKILL when the shell is the parent.
term_all_kill ==
    /\ pc = "fopen"
    /\ dent \in ProcEntries
    /\ procs' = IF dent \in ChildPids /\ procs[dent].ppid = ShellPid
                THEN [kill(procs, dent, SIGKILL) EXCEPT ![dent].killed = TRUE]
                ELSE procs
    /\ pc' = "readdir"
    /\ UNCHANGED <<ext, shell_locals, statics, tty, pipes, nlines,
                   term_vars, err>>

\* The entry vanished after readdir: fopen returns NULL and fscanf(NULL)
\* is undefined: the shell dies of it, or goes on with the old pid, ppid
\* (a second kill of the previous entry, which changes nothing).
term_all_null ==
    /\ pc = "fopen"
    /\ dent \notin ProcEntries
    /\ \/ /\ pc' = "crashed"
          /\ procs' = Orphan(procs)
       \/ /\ pc' = "readdir"
          /\ procs' = procs
    /\ UNCHANGED <<ext, shell_locals, statics, tty, pipes, nlines,
                   term_vars, err>>

\* After the last entry: ten_ms_sleep(10), the last sweep of the POLLING
\* build, exit(EXIT_SUCCESS).
term_all_exit ==
    /\ pc = "readdir"
    /\ \A e \in ProcEntries : e <= dirpos
    /\ exit(EXIT_SUCCESS,
            IF mode = "polling" THEN sigchld_handler(procs) ELSE procs)
    /\ UNCHANGED <<ext, shell_locals, statics, tty, pipes, nlines, dirpos,
                   dent, err>>

\* ------------------------------------------------------------------------
\* A child between fork and execvp
\* ------------------------------------------------------------------------
child_vars == <<ext, pc, shell_locals, statics, pipes, nlines, term_vars, err>>

\* The signals init and c_init set a disposition for.
Signals == {"SIGINT", "SIGQUIT", "SIGTSTP", "SIGTTIN", "SIGTTOU", "SIGCHLD"}

\* init: the dispositions of the shell, which a forked child inherits.
ShellDisposition(sig) ==
    CASE sig = "SIGINT"  -> "sigint_handler"
      [] sig = "SIGQUIT" -> "SIG_DFL"
      [] sig = "SIGTSTP" -> "sigtstp_handler"
      [] sig = "SIGTTIN" -> "SIG_IGN"
      [] sig = "SIGTTOU" -> "SIG_IGN"
      [] sig = "SIGCHLD" -> IF mode = "signal" THEN "sigchld_handler"
                            ELSE "SIG_DFL"

\* The disposition of sig in the child with record c.
Disposition(c, sig) == IF c.sigdfl THEN "SIG_DFL" ELSE ShellDisposition(sig)

c_init_setpgid_m(p) ==
    /\ ~ShellDead
    /\ procs[p].st = "setpgid"
    /\ procs' = [procs EXCEPT ![p].pgid = p, ![p].sigdfl = TRUE,
                    ![p].st = IF procs[p].background = 0 THEN "tcsetpgrp"
                              ELSE "signal"]
    /\ UNCHANGED <<child_vars, tty>>

\* c_init: setpgid(c_pid, c_pid).
c_init_setpgid(p) ==
    /\ ~ShellDead
    /\ procs[p].st = "setpgid"
    /\ procs' = [procs EXCEPT ![p].pgid = p,
                    ![p].st = IF procs[p].background = 0 THEN "tcsetpgrp"
                              ELSE "signal"]
    /\ UNCHANGED <<child_vars, tty>>

\* c_init(foreground): the child takes the terminal for its own group.
c_init_tcsetpgrp(p) ==
    /\ ~ShellDead
    /\ procs[p].st = "tcsetpgrp"
    /\ tty' = tcsetpgrp(getpgid(p))
    /\ procs' = [procs EXCEPT ![p].st = "signal"]
    /\ UNCHANGED child_vars

\* c_init: the six signal(..., SIG_DFL) calls.
c_init_signal(p) ==
    /\ ~ShellDead
    /\ procs[p].st = "signal"
    /\ procs' = [procs EXCEPT ![p].sigdfl = TRUE,
                    ![p].st = IF PIPING(procs[p].no_cmds) THEN "redirect"
                              ELSE "execvp"]
    /\ UNCHANGED <<child_vars, tty>>

\* stdout_to_pipe(pipe_fd): close the read end, dup2 the write end on
\* stdout.  c is the child's record, k the pipe.
stdout_to_pipe(c, k) ==
    [c EXCEPT !.fds = @ \ {<<k, READ_END>>},
              !.stdout = IF <<k, WRITE_END>> \in c.fds
                         THEN <<k, WRITE_END>> ELSE <<0, WRITE_END>>]

\* pipe_to_stdin(pipe_fd): close the write end, dup2 the read end on stdin.
pipe_to_stdin(c, k) ==
    [c EXCEPT !.fds = @ \ {<<k, WRITE_END>>},
              !.stdin = IF <<k, READ_END>> \in c.fds
                        THEN <<k, READ_END>> ELSE <<0, READ_END>>]

\* The redirections of a pipeline stage, with the child's copies of
\* pipe_fds and n (0-based in the program).
redirect_m(c) ==
    IF FIRST_CMD(c.cmd) THEN stdout_to_pipe(c, c.pipe_fds[c.n + 1])
    ELSE IF MIDDLE_CMD(c.cmd, c.no_cmds)
    THEN stdout_to_pipe(pipe_to_stdin(c, c.pipe_fds[c.n + 1]), c.pipe_fds[c.n + 1])
    ELSE IF LAST_CMD(c.cmd, c.no_cmds) THEN pipe_to_stdin(c, c.pipe_fds[c.n + 1])
    ELSE c
redirect(c) ==
    IF FIRST_CMD(c.cmd) THEN stdout_to_pipe(c, c.pipe_fds[c.n + 1])
    ELSE IF MIDDLE_CMD(c.cmd, c.no_cmds)
    THEN stdout_to_pipe(pipe_to_stdin(c, c.pipe_fds[c.n]), c.pipe_fds[c.n + 1])
    ELSE IF LAST_CMD(c.cmd, c.no_cmds) THEN pipe_to_stdin(c, c.pipe_fds[c.n + 1])
    ELSE c

child_redirect(p) ==
    /\ ~ShellDead
    /\ procs[p].st = "redirect"
    /\ procs' = [procs EXCEPT ![p] = [redirect(procs[p]) EXCEPT !.st = "execvp"]]
    /\ UNCHANGED <<child_vars, tty>>

\* execvp succeeds: the program runs, with the descriptors it inherited.
child_execvp(p) ==
    /\ ~ShellDead
    /\ procs[p].st = "execvp"
    /\ procs' = [procs EXCEPT ![p].st = "run", ![p].image = "program"]
    /\ UNCHANGED <<child_vars, tty>>

\* execvp fails (no such program): _exit(EXIT_FAILURE).
child_execvp_fails(p) ==
    /\ ~ShellDead
    /\ procs[p].st = "execvp"
    /\ procs' = Terminate(procs, p, W_EXITCODE(EXIT_FAILURE))
    /\ UNCHANGED <<child_vars, tty>>

\* ------------------------------------------------------------------------
\* The program a child runs
\* ------------------------------------------------------------------------
program_exit(p, code) ==
    /\ ~ShellDead
    /\ procs[p].st = "run"
    /\ procs' = Terminate(procs, p, W_EXITCODE(code))
    /\ UNCHANGED <<child_vars, tty>>

\* A stop signal (SIGSTOP, SIGTSTP, SIGTTIN, SIGTTOU) stops it.
program_stopped(p) ==
    /\ ~ShellDead
    /\ procs[p].st = "run"
    /\ procs' = [procs EXCEPT ![p].st = "stopped",
                              ![p].wstatus = W_STOPCODE(SIGSTOP),
                              ![p].changes = @ + 1]
    /\ UNCHANGED <<child_vars, tty>>

\* A signal from outside the shell kills it.
program_signaled(p) ==
    /\ ~ShellDead
    /\ procs[p].st \in {"run", "stopped"}
    /\ procs' = Terminate(procs, p, W_TERMSIG(SIGKILL))
    /\ UNCHANGED <<child_vars, tty>>

\* ------------------------------------------------------------------------
\* SIGTSTP, and signals that reach a child before c_init has reset them
\* ------------------------------------------------------------------------
\* kill(shell_pid, SIGSTOP): the shell stops where it is.
StopShell ==
    IF ShellStopped
    THEN UNCHANGED <<pc, resume>>
    ELSE pc' = "stopped" /\ resume' = pc

\* sigtstp_handler in the shell (Ctrl+Z): it stops itself.
sigtstp_handler ==
    /\ ~ShellDead /\ ~ShellStopped
    /\ StopShell
    /\ UNCHANGED <<mode, frame, shell_locals, statics, procs, tty, pipes, nlines,
                   term_vars, err>>

\* SIGCONT from outside: the shell goes on where it was stopped.
sigcont ==
    /\ ShellStopped
    /\ pc' = resume /\ resume' = ""
    /\ UNCHANGED <<mode, frame, shell_locals, statics, procs, tty, pipes, nlines,
                   term_vars, err>>

\* term_all run by the forked copy p: shell_pid is still the shell's pid, so
\* it kills the processes whose parent is the shell, in the order of /proc,
\* the last of them being itself.
term_all_by(pr, p) ==
    [q \in ChildPids |->
        IF q <= p /\ pr[q].ppid = ShellPid THEN kill(pr, q, SIGKILL)[q]
        ELSE pr[q]]

\* Ctrl+C while the child is in the terminal's foreground group and has the
\* disposition it was forked with: sigint_handler runs in the child.
child_sigint(p) ==
    /\ ~ShellDead
    /\ Alive(p) /\ procs[p].pgid = tty
    /\ Disposition(procs[p], "SIGINT") = "sigint_handler"
    /\ procs' = term_all_by([procs EXCEPT ![p].handler = "sigint_handler"], p)
    /\ UNCHANGED <<child_vars, tty>>

\* Ctrl+Z likewise: sigtstp_handler runs in the child and stops the shell;
\* the child goes on.
child_sigtstp(p) ==
    /\ ~ShellDead
    /\ Alive(p) /\ procs[p].pgid = tty
    /\ Disposition(procs[p], "SIGTSTP") = "sigtstp_handler"
    /\ procs' = [procs EXCEPT ![p].handler = "sigtstp_handler"]
    /\ StopShell
    /\ UNCHANGED <<mode, frame, shell_locals, statics, tty, pipes, nlines,
                   term_vars, err>>

\* ------------------------------------------------------------------------
\* check_env
\* ------------------------------------------------------------------------
\* get_env_cmd: the line check_env submits, as exec_cmdline tokenizes it.
get_env_cmd(a, pager) ==
    IF Len(a) = 1
    THEN << <<"printenv">>, <<"sort">>, <<pager>> >>
    ELSE << <<"printenv">>, <<"sort">>, <<"grep", a[2]>>, <<pager>> >>

\* getenv("PAGER"): "" when the variable is not set.
Pagers == {"", "cat"}

\* Submissions and children a checkEnv can take with this pager: one
\* pipeline, and a second one when the pager is "less" (used only to keep
\* the session within MaxLoad and MaxPids).
EnvCalls(pager) == IF pager = "less" THEN 2 ELSE 1
EnvChildren(a, pager) == EnvCalls(pager) * Len(get_env_cmd(a, pager))

\* exec_cmdline -> exec_cmd -> check_env: the pager is chosen and the first
\* line is handed to exec_cmdline; nlines counts that submission as well.
check_env(pg) ==
    /\ pc = "exec_cmdline"
    /\ Len(line[i + 1]) > 0
    /\ exec_cmd(line[i + 1], Len(line[i + 1]), i + 1, no_cmds).op = "check_env"
    /\ LET pager == IF pg # "" THEN pg ELSE "less"
       IN  /\ nlines + EnvCalls(pager) <= MaxLoad
           /\ Cardinality(Forked) + EnvChildren(line[i + 1], pager) <= MaxPids
           /\ frame' = [args |-> line[i + 1], pager |-> pager, calls |-> 1]
           /\ line' = get_env_cmd(line[i + 1], pager)
    /\ i' = 0 /\ failed_cmd' = 0 /\ err' = ""
    /\ nlines' = nlines + 1
    /\ pc' = "exec_cmdline"
    /\ UNCHANGED <<mode, resume, args, background, c_pid, status, cont,
                   statics, procs, tty, pipes, term_vars>>

\* The first exec_cmdline reported the pager's stage and the pager is
\* "less".
LessFailed ==
    /\ frame.calls = 1
    /\ failed_cmd = (IF Len(frame.args) = 1 THEN 3 ELSE 4)
    /\ frame.pager = "less"

\* check_env: "less" failed, the line is submitted again with "more".
check_env_more ==
    /\ pc = "check_env"
    /\ LessFailed
    /\ frame' = [frame EXCEPT !.calls = 2]
    /\ line' = get_env_cmd(frame.args, "more")
    /\ i' = 0 /\ failed_cmd' = 0 /\ err' = ""
    /\ nlines' = nlines + 1
    /\ pc' = "exec_cmdline"
    /\ UNCHANGED <<mode, resume, args, background, c_pid, status, cont,
                   statics, procs, tty, pipes, term_vars>>

\* check_env returns, exec_cmd returns 0 and the loop of the exec_cmdline
\* that read "checkEnv" ends after its only stage.
check_env_return ==
    /\ pc = "check_env"
    /\ ~LessFailed
    /\ frame' = NoFrame
    /\ line' = <<frame.args>>
    /\ i' = 1 /\ failed_cmd' = 0
    /\ pc' = "main"
    /\ UNCHANGED <<mode, resume, args, background, c_pid, status, cont,
                   statics, procs, tty, pipes, nlines, term_vars, err>>

\* ------------------------------------------------------------------------
\* Specification
\* ------------------------------------------------------------------------
Next ==
    \/ \E l \in Lines : prompt(l)
    \/ exec_cmdline_empty
    \/ exec_cmd_return
    \/ exec_cmd_call
    \/ exec_cmd_exit
    \/ main
    \/ fork_exec_wait_pipe
    \/ fork_exec_wait_pipe_fails
    \/ fork
    \/ fork_fails
    \/ parent
    \/ fork_exec_wait_ret
    \/ put_fg
    \/ c_wait_tcsetpgrp
    \/ c_wait_kill
    \/ c_wait_waitpid
    \/ c_wait_waitpid_fails
    \/ c_wait_reclaim
    \/ c_wait_reclaim_fg
    \/ sigchld
    \/ sigint_handler
    \/ term_all_readdir
    \/ term_all_kill
    \/ term_all_null
    \/ term_all_exit
    \/ \E p \in ChildPids :
          \/ c_init_setpgid(p)
          \/ c_init_tcsetpgrp(p)
          \/ c_init_signal(p)
          \/ child_redirect(p)
          \/ child_execvp(p)
          \/ child_execvp_fails(p)
          \/ \E code \in {EXIT_SUCCESS, EXIT_FAILURE} : program_exit(p, code)
          \/ program_stopped(p)
          \/ program_signaled(p)

Spec == Init /\ [][Next]_vars

\* Sessions of commands and two-stage pipelines in which the terminal's
\* interrupt and stop signals also reach the children that still have the
\* shell's dispositions, and the shell can be stopped and continued.  The
\* programs run to their end; no signal reaches them from elsewhere.
SigLines == { << <<"run">> >>, << <<"run", "&">> >>, << <<"run">>, <<"run">> >> }

SigNext ==
    \/ \E l \in SigLines : prompt(l)
    \/ exec_cmd_call
    \/ main
    \/ fork_exec_wait_pipe
    \/ fork
    \/ parent
    \/ fork_exec_wait_ret
    \/ c_wait_waitpid
    \/ c_wait_waitpid_fails
    \/ c_wait_reclaim
    \/ sigchld
    \/ sigint_handler
    \/ sigtstp_handler
    \/ sigcont
    \/ term_all_readdir
    \/ term_all_kill
    \/ term_all_null
    \/ term_all_exit
    \/ \E p \in ChildPids :
          \/ c_init_setpgid(p)
          \/ c_init_tcsetpgrp(p)
          \/ c_init_signal(p)
          \/ child_redirect(p)
          \/ child_execvp(p)
          \/ child_execvp_fails(p)
          \/ \E code \in {EXIT_SUCCESS, EXIT_FAILURE} : program_exit(p, code)
          \/ child_sigint(p)
          \/ child_sigtstp(p)

SigSpec == Init /\ [][SigNext]_vars

\* Sessions of pipelines and of the checkEnv built-in, with as many children
\* as MaxPids allows: pipelines that end at an empty stage or at a failing
\* last stage are followed by further pipelines.  The system lets the shell
\* fork while fewer than MaxSetUp children are between their fork and their
\* exec; the program of a line's last stage runs to its end or cannot be
\* executed, the programs of the stages before it run on, and no signal
\* reaches them or the shell from the terminal.
EnvLines ==
    { << <<"checkEnv">> >>,
      << <<"run">>, <<"run">> >>,
      << <<"run">>, << >> >>,
      << <<"run">>, <<"run">>, << >> >> }

\* prompt, in these sessions: the next line is read as long as MaxLoad
\* submissions and MaxPids children are enough for it.
prompt_env(l) ==
    /\ pc = "prompt"
    /\ IF exec_cmd(l[1], Len(l[1]), 1, Len(l)).op = "check_env"
       THEN /\ nlines + 2 <= MaxLoad
            /\ Cardinality(Forked) + EnvChildren(l[1], "cat") <= MaxPids
       ELSE /\ nlines + 1 <= MaxLoad
            /\ Cardinality(Forked) + Spawns(l) <= MaxPids
    /\ line' = l /\ i' = 0 /\ failed_cmd' = 0 /\ err' = ""
    /\ nlines' = nlines + 1
    /\ pc' = "exec_cmdline"
    /\ UNCHANGED <<ext, args, background, c_pid, status, cont, statics,
                   procs, tty, pipes, term_vars>>

\* The children that have not reached their program yet.
InSetUp == {p \in ChildPids : procs[p].st \in
               {"setpgid", "tcsetpgrp", "signal", "redirect", "execvp"}}

EnvNext ==
    \/ \E l \in EnvLines : prompt_env(l)
    \/ exec_cmdline_empty
    \/ exec_cmd_call
    \/ \E pg \in Pagers : check_env(pg)
    \/ check_env_more
    \/ check_env_return
    \/ main
    \/ fork_exec_wait_pipe
    \/ Cardinality(InSetUp) < MaxSetUp /\ fork
    \/ parent
    \/ fork_exec_wait_ret
    \/ c_wait_waitpid
    \/ c_wait_waitpid_fails
    \/ c_wait_reclaim
    \/ sigchld
    \/ \E p \in ChildPids :
          \/ c_init_setpgid(p)
          \/ c_init_tcsetpgrp(p)
          \/ c_init_signal(p)
          \/ child_redirect(p)
          \/ child_execvp(p)
          \/ procs[p].cmd = procs[p].no_cmds /\ child_execvp_fails(p)
          \/ procs[p].cmd = procs[p].no_cmds /\ program_exit(p, EXIT_SUCCESS)

EnvSpec == Init /\ [][EnvNext]_vars

\* ========================================================================
\* Properties
\* ========================================================================
Builtin(a)        == a[1] \in {"cd", "checkEnv", "exit", "fg"}
AllStagesNonEmpty == \A k \in 1..Len(line) : Len(line[k]) > 0
ChildrenOf(l)     == {p \in Forked : procs[p].line = l}
PipesOf(l)        == {k \in 1..Len(pipes) : pipes[k].line = l}
Exited(p)         == procs[p].st \in {"zombie", "gone"}
InCWait           == pc \in {"c_wait", "c_wait_kill", "waitpid", "reclaim"}
\* exec_cmdline has returned (the shell is back in main with its result).
CmdlineReturned   == pc = "main"
\* The child of the current line that runs its last stage.
LastStage(p)      == p \in ChildrenOf(nlines) /\ procs[p].cmd = no_cmds
\* Process q holds the write end of pipe k open.
HoldsWrite(q, k)  == /\ Alive(q)
                     /\ \/ <<k, WRITE_END>> \in procs[q].fds
                        \/ procs[q].stdout = <<k, WRITE_END>>
\* The pid is a live child of the session, by the process table.
LiveChild(pid)    == /\ pid \in ChildPids
                     /\ procs[pid].st \notin {"none", "gone"}
                     /\ procs[pid].ppid = ShellPid

\* What holds of pipes and forks whatever the line: a stage is forked only
\* when all the pipes of its line exist, and the children of a line are its
\* stages 1, 2, ... in the order of their creation.
PipesBeforeForksInOrder ==
    /\ \A p \in Forked :
          Cardinality(PipesOf(procs[p].line)) = procs[p].no_cmds - 1
    /\ \A p \in Forked :
          procs[p].cmd = Cardinality({q \in ChildrenOf(procs[p].line) : q <= p})

\* C1 as stated: when exec_cmdline returns from a line of N stages, all
\* non-empty and for N = 1 not a built-in, N - 1 pipes were created, all
\* before the first fork, and N children were forked, stage 1 to N in order.
C1_AsStated ==
    /\ PipesBeforeForksInOrder
    /\ (/\ CmdlineReturned /\ AllStagesNonEmpty
        /\ (Len(line) = 1 => ~Builtin(line[1])))
       => /\ Cardinality(ChildrenOf(nlines)) = Len(line)
          /\ Cardinality(PipesOf(nlines)) = Len(line) - 1

\* C1 amended: the same, for N = 1 the stage being neither a built-in nor a
\* background marker without a command before it.
C1_PipesAndForks ==
    /\ PipesBeforeForksInOrder
    /\ (/\ CmdlineReturned /\ AllStagesNonEmpty
        /\ (Len(line) = 1 => ~Builtin(line[1]) /\ line[1] # <<"&">>))
       => /\ Cardinality(ChildrenOf(nlines)) = Len(line)
          /\ Cardinality(PipesOf(nlines)) = Len(line) - 1

C1_Witness ==
    /\ CmdlineReturned /\ AllStagesNonEmpty /\ Len(line) >= 3
    /\ Cardinality(ChildrenOf(nlines)) = Len(line)
    /\ Cardinality(PipesOf(nlines)) = Len(line) - 1

\* C2: when a pipeline has ended (exec_cmdline returned, failed or not) the
\* shell has closed each end of each of its pipes exactly once and holds
\* none of them open.
C2_EndpointsClosedOnce ==
    (CmdlineReturned /\ PIPING(no_cmds))
    => \A k \in PipesOf(nlines) :
          /\ pipes[k].open = {}
          /\ pipes[k].closes[READ_END] = 1
          /\ pipes[k].closes[WRITE_END] = 1

\* C3, in the states where the whole pipeline has been spawned, the shell
\* waits for its last stage and every stage has got past its redirections:
\* once stage i < N has exited, neither the shell nor another process holds
\* the write end of pipe i.
C3_WriteEndReleased ==
    (/\ pc = "waitpid" /\ cont = 0 /\ PIPING(no_cmds)
     /\ \A q \in ChildrenOf(nlines) :
           procs[q].st \in {"run", "stopped", "zombie", "gone"})
    => \A p \in ChildrenOf(nlines) :
          (procs[p].cmd < no_cmds /\ Exited(p))
          => LET k == procs[p].pipe_fds[procs[p].cmd]
             IN  /\ WRITE_END \notin pipes[k].open
                 /\ \A q \in ChildPids : ~HoldsWrite(q, k)

\* C4: exec_cmdline returns non-zero from a pipeline of two or more
\* (non-empty) stages exactly when the last stage exited with EXIT_FAILURE.
C4_FailedIffLastStageFailed ==
    (CmdlineReturned /\ PIPING(no_cmds) /\ AllStagesNonEmpty)
    => \A p \in ChildPids :
          LastStage(p)
          => (failed_cmd # 0 <=> procs[p].termstat = W_EXITCODE(EXIT_FAILURE))

\* C5: at the prompt the terminal's foreground group is the shell's own.
C5_ShellOwnsTerminalAtPrompt ==
    pc = "prompt" => tty = ShellPid

\* A single-stage line "<command> ... &".
BackgroundLine ==
    /\ Len(line) = 1 /\ Len(line[1]) >= 2
    /\ line[1][Len(line[1])] = "&"

\* What C6 says of such a line, once exec_cmdline has returned: one child,
\* without the marker in its arguments, announced as spawned in background,
\* never waited for; and the shell never entered c_wait for the line.
SpawnedInBackground ==
    /\ BackgroundLine => ~InCWait
    /\ (BackgroundLine /\ CmdlineReturned)
       => /\ failed_cmd = 0
          /\ \E p \in ChildPids :
                /\ ChildrenOf(nlines) = {p}
                /\ procs[p].args = SubSeq(line[1], 1, Len(line[1]) - 1)
                /\ procs[p].spawned = "background"
                /\ ~procs[p].waited
                /\ procs[p].st # "tcsetpgrp"

C7_FgNoSuchChild ==
    [][(/\ pc = "put_fg" /\ pc' \notin {"put_fg", "readdir"}
        /\ ~LiveChild(sscanf_d(args[2])))
       => /\ err' = "No such child"
          /\ pc' = "main"
          /\ UNCHANGED <<procs, tty>>]_vars

\* fg was refused while the session had a live child.
C7_Witness ==
    /\ pc = "main" /\ err = "No such child"
    /\ \E p \in ChildPids : Alive(p)

\* C8: once the shell has handled exit or SIGINT, it has terminated with
\* EXIT_SUCCESS and no child of the session is left alive.
C8_AllChildrenKilled ==
    (ShellDead /\ exit_status # EXIT_FAILURE)
    => /\ pc = "exited" /\ exit_status = EXIT_SUCCESS
       /\ \A p \in ChildPids : ~Alive(p)

\* C9: every line print_status writes for a child consumes one state change
\* of that child that no waitpid had collected; a child whose state changes
\* are all collected (a reaped child among them) is reported no more.
C9_NoDoubleReport ==
    [][\A p \in ChildPids :
          procs'[p].reports # procs[p].reports
          => /\ procs'[p].reports = procs[p].reports + 1
             /\ Waitable(procs, p)
             /\ ~Waitable(procs', p)]_vars

\* A child was reported stopped and later reported terminated, and is gone.
C9_Witness ==
    \E p \in ChildPids :
        procs[p].st = "gone" /\ procs[p].reports = 2 /\ procs[p].changes = 2

\* C10: when exec_cmdline fails at a stage without arguments, the line has
\* forked no process and created no pipe.
C10_EmptyStageSpawnsNothing ==
    (CmdlineReturned /\ err = "Empty command")
    => /\ failed_cmd = i + 1 /\ Len(line[i + 1]) = 0
       /\ ChildrenOf(nlines) = {}
       /\ PipesOf(nlines) = {}

\* The j-th pipe (1-based) created for submission l.
PipeOf(l, j) == CHOOSE k \in 1..Len(pipes) : pipes[k].line = l /\ pipes[k].idx = j
\* The child has done its redirections.
Redirected(p) == procs[p].st = "execvp" \/ procs[p].image = "program"

\* C11: in a pipeline of N >= 2 stages a child past its redirections has, as
\* stage 1, the terminal as stdin and the write end of pipe 1 as stdout; as
\* stage 1 < i < N the read end of pipe i-1 and the write end of pipe i; as
\* stage N the read end of pipe N-1 and the terminal as stdout.  And while
\* fork_exec_wait forks a stage of a pipeline its pipe index n (0-based)
\* stays within the N-1 pipes allocated for the line.
C11_PipeWiring ==
    /\ \A p \in Forked :
          (PIPING(procs[p].no_cmds) /\ Redirected(p))
          => LET c == procs[p]
             IN  /\ c.stdin = IF c.cmd = 1 THEN << >>
                              ELSE <<PipeOf(c.line, c.cmd - 1), READ_END>>
                 /\ c.stdout = IF c.cmd = c.no_cmds THEN << >>
                               ELSE <<PipeOf(c.line, c.cmd), WRITE_END>>
    /\ (pc \in {"fork", "parent"} /\ PIPING(no_cmds))
       => /\ Len(pipe_fds) = no_cmds - 1
          /\ n \in 0..(no_cmds - 2)
          /\ pipes[pipe_fds[n + 1]].line = nlines

\* The three stages of a pipeline are all running, wired to its two pipes.
C11_Witness ==
    \E p, q, r \in ChildPids :
        /\ procs[p].no_cmds = 3 /\ procs[p].cmd = 1 /\ procs[p].st = "run"
        /\ procs[q].line = procs[p].line /\ procs[q].cmd = 2
        /\ procs[q].st = "run"
        /\ procs[q].stdin = <<PipeOf(procs[q].line, 1), READ_END>>
        /\ procs[q].stdout = <<PipeOf(procs[q].line, 2), WRITE_END>>
        /\ procs[r].line = procs[p].line /\ procs[r].cmd = 3
        /\ procs[r].st = "run"

\* C12: in the SIGDET=1 build, when c_wait called by fork_exec_wait is about
\* to return, its own waitpid has collected the child (the report and the
\* run time were printed by c_wait) and status is the status of the state
\* change the child went through.
C12_WaitCollectsItself ==
    (mode = "signal" /\ pc = "reclaim" /\ cont = 0)
    => /\ procs[c_pid].runtime = 1
       /\ procs[c_pid].changes = 1
          => status = IF procs[c_pid].st = "stopped" THEN W_STOPCODE(SIGSTOP)
                      ELSE procs[c_pid].termstat

\* The shell process is scheduled: a step of its main flow that stays
\* possible is taken.  Nothing is assumed of the children, of the user or of
\* signals.
Fairness ==
    /\ WF_vars(c_wait_waitpid) /\ WF_vars(c_wait_waitpid_fails)
    /\ WF_vars(c_wait_reclaim) /\ WF_vars(c_wait_reclaim_fg)
    /\ WF_vars(fork_exec_wait_ret) /\ WF_vars(main)

LiveSpec == Spec /\ Fairness

\* The child c_wait waits for has exited or is stopped.
WaitedChildDone ==
    /\ pc = "waitpid"
    /\ procs[c_pid].st \in {"stopped", "zombie", "gone"}

\* C13: once the child the shell waits for in c_wait has exited or stopped,
\* the shell gets back to the prompt (unless a SIGINT makes it terminate).
C13_WaitReturns ==
    WaitedChildDone ~> (pc = "prompt" \/ InTermAll \/ ShellDead)

\* This step reports a state change of child p (a waitpid collected it).
Reported(p) == procs'[p].reports = procs[p].reports + 1
\* This step is a run of sigchld_handler: as the SIGCHLD handler, as the
\* poll in main, or as the last poll of term_all.
Sweep ==
    \/ procs' = sigchld_handler(procs)
    \/ pc = "readdir" /\ pc' = "exited"
\* fork_exec_wait leaves its parent branch: into c_wait only for the last
\* stage of a line that is not in background, otherwise straight on.
WaitOnlyLastStage ==
    (pc = "parent" /\ pc' \notin {"parent", "readdir"})
    => IF LAST_CMD(cmd, no_cmds) /\ background = 0
       THEN pc' = "waitpid" /\ cont' = 0
       ELSE pc' = "fork_exec_wait_ret" /\ procs'[c_pid].st = procs[c_pid].st

\* C14 as stated: fork_exec_wait waits only for the last stage of a line
\* not in background, and a state change of a stage i < N is collected
\* only by a run of sigchld_handler.
C14_AsStated ==
    [][/\ WaitOnlyLastStage
       /\ \A p \in ChildPids :
             (procs[p].cmd < procs[p].no_cmds /\ Reported(p)) => Sweep]_vars

\* C14 amended: ... is collected by a run of sigchld_handler, or by the
\* c_wait of a later fg built-in that names the stage's pid.
C14_WaitOnlyLastStage ==
    [][/\ WaitOnlyLastStage
       /\ \A p \in ChildPids :
             (procs[p].cmd < procs[p].no_cmds /\ Reported(p))
             => \/ Sweep
                \/ pc = "waitpid" /\ cont = 1 /\ c_pid = p]_vars

\* The shell waits for the last stage of a pipeline while an earlier stage
\* has terminated and been collected.
C14_Witness ==
    /\ pc = "waitpid" /\ cont = 0 /\ PIPING(no_cmds)
    /\ \E p \in ChildrenOf(nlines) :
          /\ procs[p].cmd < no_cmds
          /\ procs[p].st = "gone" /\ procs[p].reports = 1

\* C15: while exec_cmdline runs a pipeline, the terminal's foreground group
\* is never the group of one of its stages i < N.
C15_OnlyLastStageForeground ==
    PIPING(no_cmds)
    => \A p \in ChildrenOf(nlines) : procs[p].cmd < no_cmds => tty # p

\* The positions of the shell inside c_wait.
CWaitPcs == {"c_wait", "c_wait_kill", "waitpid", "reclaim"}

\* C16: the shell leaves c_wait only from the reclaim of the terminal, which
\* makes the shell's group the foreground group; and waitpid, whether it
\* returned an exit, a death by signal, a stop, or failed, leads there.
\* (A SIGINT ends the shell inside c_wait: term_all never returns.)
C16_ReclaimOnEveryReturn ==
    [][/\ (pc \in CWaitPcs /\ pc' \notin CWaitPcs \cup {"readdir"})
          => pc = "reclaim" /\ tty' = getpgid(ShellPid)
       /\ (pc = "waitpid" /\ pc' \notin {"waitpid", "readdir"})
          => pc' = "reclaim"]_vars

\* c_wait has returned to fork_exec_wait after a waitpid that failed (the
\* handler had reaped the child) and the terminal is the shell's again.
C16_Witness ==
    /\ pc = "fork_exec_wait_ret" /\ c_pid \in ChildPids
    /\ procs[c_pid].waited /\ procs[c_pid].runtime = 0
    /\ procs[c_pid].st = "gone"
    /\ tty = ShellPid

\* The shell moves on from position at (a SIGINT apart, which ends it).
Leaves(at) == pc = at /\ pc' \notin {at, "readdir"}

\* C17: put_fg on a live child goes through c_wait with cont = 1 in this
\* order: tcsetpgrp for the child's group (no signal sent yet), kill with
\* SIGCONT, waitpid, tcsetpgrp for the shell's group; and a c_wait entered
\* by put_fg prints no run time.
C17_FgOrder ==
    [][/\ (Leaves("put_fg") /\ LiveChild(sscanf_d(args[2])))
          => /\ pc' = "c_wait" /\ cont' = 1 /\ c_pid' = sscanf_d(args[2])
             /\ UNCHANGED <<procs, tty>>
       /\ Leaves("c_wait")
          => /\ pc' = "c_wait_kill"
             /\ tty' = tcsetpgrp(getpgid(c_pid))
             /\ UNCHANGED <<procs, c_pid, cont>>
       /\ Leaves("c_wait_kill")
          => /\ pc' = "waitpid"
             /\ procs' = kill(procs, c_pid, SIGCONT)
             /\ UNCHANGED <<tty, c_pid, cont>>
       /\ (Leaves("waitpid") /\ cont = 1)
          => /\ pc' = "reclaim"
             /\ UNCHANGED <<tty, c_pid, cont>>
       /\ (Leaves("reclaim") /\ cont = 1)
          => tty' = getpgid(ShellPid)
       /\ cont = 1
          => \A p \in ChildPids : procs'[p].runtime = procs[p].runtime]_vars

\* fg has given the terminal to a stopped child and continued it, and the
\* shell waits for it.
C17_Witness ==
    /\ pc = "waitpid" /\ cont = 1 /\ c_pid \in ChildPids
    /\ procs[c_pid].st = "run" /\ procs[c_pid].changes = 1
    /\ tty = c_pid

\* Child p is killed in this step (SIGKILL from term_all).
Killed(p) == /\ procs'[p].st = "zombie"
             /\ procs'[p].termstat = W_TERMSIG(SIGKILL)

\* C18: a forked child, unless it is killed on the way, goes through
\* setpgid(own pid, own pid); then, when not in background, tcsetpgrp for
\* that group with SIGTTOU still ignored (so the request does not stop it);
\* then the six dispositions are reset to SIG_DFL; then, in a pipeline, the
\* redirections; then execvp, which starts the program or ends the child.
\* A child that runs its program leads its own group and has every
\* disposition at its default.
C18_ChildSetupOrder ==
    [][\A p \in ChildPids :
          LET c == procs[p]
              d == procs'[p]
          IN  /\ (d.st # c.st /\ ~Killed(p))
                 => CASE c.st = "none" ->
                           d.st = "setpgid" /\ ~d.sigdfl /\ d.image = "shell"
                      [] c.st = "setpgid" ->
                           /\ d.pgid = p
                           /\ d.st = IF c.background = 0 THEN "tcsetpgrp"
                                     ELSE "signal"
                           /\ ~d.sigdfl
                      [] c.st = "tcsetpgrp" ->
                           /\ c.pgid = p /\ c.background = 0
                           /\ Disposition(c, "SIGTTOU") = "SIG_IGN"
                           /\ tty' = p
                           /\ d.st = "signal"
                      [] c.st = "signal" ->
                           /\ \A sig \in Signals : Disposition(d, sig) = "SIG_DFL"
                           /\ c.stdin = << >> /\ c.stdout = << >>
                           /\ d.st = IF PIPING(c.no_cmds) THEN "redirect"
                                     ELSE "execvp"
                      [] c.st = "redirect" ->
                           d = [redirect(c) EXCEPT !.st = "execvp"]
                      [] c.st = "execvp" ->
                           \/ d.st = "run" /\ d.image = "program"
                           \/ /\ d.st = "zombie" /\ d.image = "shell"
                              /\ d.termstat = W_EXITCODE(EXIT_FAILURE)
                      [] OTHER -> d.image = c.image
              /\ d.image = "program"
                 => /\ d.pgid = p
                    /\ \A sig \in Signals : Disposition(d, sig) = "SIG_DFL"]_vars

\* The second stage of a pipeline runs its program, with the terminal
\* given to its group.
C18_Witness ==
    \E p \in ChildPids :
        /\ procs[p].image = "program" /\ procs[p].st = "run"
        /\ procs[p].cmd = 2 /\ procs[p].stdin # << >>
        /\ procs[p].sigdfl /\ procs[p].pgid = p /\ tty = p

\* C20: no forked child ever runs sigint_handler or sigtstp_handler of the
\* shell: a child that has not started its program has killed none of the
\* session's children and has not stopped the shell.
C20_HandlersOnlyInShell ==
    \A p \in ChildPids : procs[p].handler = ""

\* The pipes a child's standard input and output are attached to.
Attached(p) ==
    {io[1] : io \in {s \in {procs[p].stdin, procs[p].stdout} :
                         s # << >> /\ s[1] # 0}}

\* The shell is in the loop of exec_cmdline over the stages of a pipeline,
\* past the allocation of its pipes ...
SpawnLoop ==
    /\ PIPING(no_cmds)
    /\ \/ pc \in {"fork", "parent", "waitpid", "reclaim", "fork_exec_wait_ret"}
       \/ pc \in {"exec_cmdline", "fork_exec_wait"} /\ i > 0
\* ... and in fork_exec_wait for one of them, past the step of the index.
Spawning ==
    /\ PIPING(no_cmds)
    /\ pc \in {"fork", "parent", "waitpid", "reclaim", "fork_exec_wait_ret"}

\* C19: no child is attached, as standard input or output, to a pipe that
\* was created for another submission than its own; and while a pipeline is
\* being spawned pipe_fds holds exactly the pipes created for that
\* submission, in their order, and n is the index of the pipe the stage
\* being spawned writes to (reads from, for the last stage).  This holds
\* for lines read at the prompt after pipelines that ended at an empty
\* stage or a failing last stage, and for the lines check_env submits.
C19_PipelineIsolation ==
    /\ \A p \in Forked : \A k \in Attached(p) : pipes[k].line = procs[p].line
    /\ \A p \in Forked : \A k \in 1..Len(procs[p].pipe_fds) :
          pipes[procs[p].pipe_fds[k]].line = procs[p].line
    /\ SpawnLoop
       => /\ Len(pipe_fds) = no_cmds - 1
          /\ \A k \in 1..Len(pipe_fds) :
                /\ pipes[pipe_fds[k]].line = nlines
                /\ pipes[pipe_fds[k]].idx = k
    /\ Spawning
       => n + 1 = (IF LAST_CMD(cmd, no_cmds) THEN cmd - 1 ELSE cmd)

\* After a pipeline that ended at an empty stage, check_env has submitted
\* its line a second time: a stage of each of its two pipelines and the
\* first stage of the earlier pipeline are running, each attached to a pipe
\* of its own submission.
C19_Witness ==
    /\ frame.calls = 2
    /\ \E p, q, r \in Forked :
          /\ procs[r].line < procs[q].line /\ procs[q].line < procs[p].line
          /\ procs[p].line = nlines
          /\ procs[r].no_cmds = 2 /\ procs[q].no_cmds = 3
          /\ \A c \in {p, q, r} : procs[c].st = "run" /\ Attached(c) # {}
          /\ Attached(p) \cap Attached(q) = {}
          /\ Attached(q) \cap Attached(r) = {}

====
